---------------------------- MODULE Spec2Model ----------------------------
(***************************************************************************)
(* Model of examples/pomodoro.rs: the debouncing button task, the          *)
(* pomodoro (phase race) task, the idle main loop and the Signal that the  *)
(* two tasks share.                                                        *)
(*                                                                         *)
(* Scheduling is embassy's cooperative executor: the code between two      *)
(* .await points of a task runs as one step, so every action below is one  *)
(* poll of one task.  Time is a single clock counted in ticks of 100 ms    *)
(* (Tick); a task whose timer has expired or whose awaited line level is   *)
(* present is polled before the clock advances.                            *)
(***************************************************************************)
EXTENDS Naturals, Sequences, FiniteSets

\* ------------------------------------------------------------------ bounds

\* The 25 minute and 5 minute countdowns, scaled down to a few seconds so
\* that both outcomes of the work race are reachable.
WorkSecs == 3
BreakSecs == 2
\* Storeys::cycle is not part of the example file: its number of steps is
\* drawn from 1..MaxCycleSteps.
MaxCycleSteps == 4
\* Cap on the number of presses the button task reports.
MaxPresses == 3
\* wait_for_button_n_times is called with n in 0..MaxGateN.
MaxGateN == 4

\* --------------------------------------------------------------- durations

\* Duration::from_millis / Duration::from_secs, in ticks of 100 ms.
Millis(ms) == ms \div 100
Secs(s) == s * 10

\* The counters of elapsed ticks stop at two debounce delays.
SinceCap == Millis(200)

debounce_delay_omitted == Millis(0)
debounce_delay == Millis(100)
step == Secs(1)
pomodoro_timer == Secs(WorkSecs)
break_timer_longer == Secs(BreakSecs) + step
break_timer == Secs(BreakSecs)
main_delay == Secs(3)

VARIABLES
    line,          \* level of the SW1 input line: "high" or "low"
    pressed,       \* the push-button is held down (bouncing-switch environment)
    bounce,        \* remaining ticks in which the contacts still bounce
    actuations,    \* completed press-and-release actuations of the push-button
    bpc,           \* position of the task that owns the line, inside wait_for_button
    btimer,        \* remaining ticks of the running debounce delay()
    elapsed,       \* ticks the running debounce delay() has lasted
    seq,           \* steps completed so far by the running wait_for_button call
    last_call,     \* steps of the wait_for_button call that returned last
    presses,       \* number of returns of wait_for_button
    signals,       \* number of SW1_SIGNAL.signal(()) calls
    since,         \* ticks since the last accepted line observation (capped)
    since_press,   \* ticks since the last return of wait_for_button (capped)
    armed,         \* level the line had when the running wait_for_* was entered
    gpc,           \* caller of wait_for_button_n_times: "none", "spawned", "running", "returned"
    gate_n,        \* argument n of wait_for_button_n_times
    sw1,           \* SW1_SIGNAL: "None", "Waiting" or "Signaled"
    cons,          \* a consumer calling reset()/wait(): "none", "idle", "waiting"
    unseen,        \* signal() calls since the slot was last emptied
    wait_returns,  \* number of returns of wait()
    dropped,       \* signal() calls whose notification a reset() cleared
    consumed,      \* signal() calls whose notification a wait() took
    last_k,        \* signal() calls behind the notification the last wait() took
    ppc,           \* pomodoro_task: "unspawned", "spawned", "work", "break", "done"
    cycle_len,     \* number of steps of Storeys::cycle
    cpos,          \* steps of the running animation completed so far
    driving,       \* the animations that hold the storeys: "cycle", "blink"
    cycle_steps,   \* steps Storeys::cycle has started
    blink_steps,   \* steps Storeys::blink has started
    atimer,        \* remaining ticks of the animation's step delay
    ctimer,        \* remaining ticks of the countdown timer()
    phase_log,     \* phases pomodoro_task has entered, in order
    race_log,      \* one record per resolved select
    finished_led,  \* "on" or "off"
    offs,          \* number of finished_led.switch_off() calls
    mpc,           \* main: "start", "loop" ("none" when main is not run)
    mtimer         \* main: remaining ticks of its delay()

envVars == <<pressed, bounce, actuations>>
buttonVars == <<bpc, btimer, elapsed, seq, last_call, presses, signals, since,
                since_press, armed>>
gateVars == <<gpc, gate_n>>
consVars == <<cons, unseen, wait_returns, dropped, consumed, last_k>>
pomodoroVars == <<ppc, cycle_len, cpos, driving, cycle_steps, blink_steps,
                  atimer, ctimer, phase_log, race_log, finished_led, offs>>
mainVars == <<mpc, mtimer>>

vars == <<line, envVars, buttonVars, gateVars, sw1, consVars, pomodoroVars,
          mainVars>>

\* ------------------------------------------------------------------ Signal

\* embassy_sync::signal::Signal<_, ()>: one slot, None | Waiting | Signaled.
\* signal(()) stores the notification, whatever the slot held.
SignalSignalUnlessWaiting(s) == IF s = "Waiting" THEN s ELSE "Signaled"
SignalSignal(s) == "Signaled"
\* reset() empties the slot.
SignalResetKeeps(s) == s
SignalReset(s) == "None"
\* A poll of wait() is ready exactly when the slot is Signaled.
SignalWaitReady(s) == s = "Signaled"
\* A poll of wait() takes the notification out of the slot, or registers the
\* waker when there is none.
SignalWaitPollKeeps(s) == IF SignalWaitReady(s) THEN s ELSE "Waiting"
SignalWaitPoll(s) == IF SignalWaitReady(s) THEN "None" ELSE "Waiting"

\* -------------------------------------------------------------------- Init

Levels == {"high", "low"}

\* What every specification starts from: the button at rest, no timer
\* running, nothing signalled and no history.
InitCommon ==
    /\ pressed = FALSE
    /\ bounce = 0
    /\ actuations = 0
    /\ btimer = 0
    /\ elapsed = 0
    /\ seq = <<>>
    /\ last_call = <<>>
    /\ presses = 0
    /\ signals = 0
    /\ since = SinceCap
    /\ since_press = SinceCap
    /\ armed = "none"
    /\ sw1 = "None"
    /\ unseen = 0
    /\ wait_returns = 0
    /\ dropped = 0
    /\ consumed = 0
    /\ last_k = 0
    /\ cpos = 0
    /\ driving = {}
    /\ cycle_steps = 0
    /\ blink_steps = 0
    /\ atimer = 0
    /\ ctimer = 0
    /\ phase_log = <<>>
    /\ race_log = <<>>
    /\ offs = 0
    /\ mtimer = 0

\* The program at the entry of main.
Init ==
    /\ InitCommon
    /\ line \in Levels
    /\ bpc = "unspawned"
    /\ gpc = "none"
    /\ gate_n = 0
    /\ cons = "none"
    /\ ppc = "unspawned"
    /\ cycle_len \in 1..MaxCycleSteps
    /\ finished_led \in {"on", "off"}
    /\ mpc = "start"

\* -------------------------------------------------------------------- main

\* main up to its first .await: spawns button_task and pomodoro_task, then
\* enters the idle loop's first delay.
MainStart ==
    /\ mpc = "start"
    /\ mpc' = "loop"
    /\ mtimer' = main_delay
    /\ bpc' = "spawned"
    /\ ppc' = "spawned"
    /\ UNCHANGED <<line, envVars, btimer, elapsed, seq, last_call, presses,
                   signals, since, since_press, armed, gateVars, sw1, consVars,
                   cycle_len, cpos, driving, cycle_steps, blink_steps, atimer,
                   ctimer, phase_log, race_log, finished_led, offs>>

\* loop { delay(Duration::from_secs(3)).await; }
MainLoop ==
    /\ mpc = "loop"
    /\ mtimer = 0
    /\ mtimer' = main_delay
    /\ UNCHANGED <<line, envVars, buttonVars, gateVars, sw1, consVars,
                   pomodoroVars, mpc>>

\* --------------------------------------------------------- wait_for_button

\* Input::wait_for_high / wait_for_low are ready while the line is at the
\* level, whenever it got there.
LineAtAny(level) == TRUE
LineAtEdge(level) == line = level /\ armed # level
LineAt(level) == line = level

\* button.wait_for_high().await, then delay(debounce_delay) is started.
WaitHigh ==
    /\ bpc = "wait_high"
    /\ LineAt("high")
    /\ bpc' = "delay1"
    /\ btimer' = debounce_delay
    /\ elapsed' = 0
    /\ seq' = Append(seq, <<"high", 0>>)
    /\ since' = 0
    /\ UNCHANGED <<line, envVars, last_call, presses, signals, since_press,
                   armed, gateVars, sw1, consVars, pomodoroVars, mainVars>>

\* The first delay(debounce_delay).await completes; wait_for_low is entered.
Delay1Done ==
    /\ bpc = "delay1"
    /\ btimer = 0
    /\ bpc' = "wait_low"
    /\ seq' = Append(seq, <<"delay", elapsed>>)
    /\ armed' = line
    /\ UNCHANGED <<line, envVars, btimer, elapsed, last_call, presses, signals,
                   since, since_press, gateVars, sw1, consVars, pomodoroVars,
                   mainVars>>

\* button.wait_for_low().await, then the second delay is started.
WaitLow ==
    /\ bpc = "wait_low"
    /\ LineAt("low")
    /\ bpc' = "delay2"
    /\ btimer' = debounce_delay
    /\ elapsed' = 0
    /\ seq' = Append(seq, <<"low", 0>>)
    /\ since' = 0
    /\ UNCHANGED <<line, envVars, last_call, presses, signals, since_press,
                   armed, gateVars, sw1, consVars, pomodoroVars, mainVars>>

\* The second delay(debounce_delay).await completes; the last wait_for_high
\* is entered.
Delay2Done ==
    /\ bpc = "delay2"
    /\ btimer = 0
    /\ bpc' = "wait_high_again"
    /\ seq' = Append(seq, <<"delay", elapsed>>)
    /\ armed' = line
    /\ UNCHANGED <<line, envVars, btimer, elapsed, last_call, presses, signals,
                   since, since_press, gateVars, sw1, consVars, pomodoroVars,
                   mainVars>>

\* The last button.wait_for_high().await is ready: wait_for_button returns.
WaitForButtonReturns ==
    /\ bpc = "wait_high_again"
    /\ LineAt("high")

\* ------------------------------------------------------------- button task

\* First poll of button_task: enters the loop and calls wait_for_button.
ButtonStart ==
    /\ bpc = "spawned"
    /\ gpc = "none"
    /\ bpc' = "wait_high"
    /\ seq' = <<>>
    /\ armed' = line
    /\ UNCHANGED <<line, envVars, btimer, elapsed, last_call, presses, signals,
                   since, since_press, gateVars, sw1, consVars, pomodoroVars,
                   mainVars>>

\* wait_for_button returns to button_task, which signals and calls
\* wait_for_button again.
WaitHighAgain ==
    /\ gpc = "none"
    /\ WaitForButtonReturns
    /\ presses < MaxPresses
    /\ presses' = presses + 1
    /\ last_call' = Append(seq, <<"high", 0>>)
    /\ sw1' = SignalSignal(sw1)
    /\ signals' = signals + 1
    /\ unseen' = unseen + 1
    /\ seq' = <<>>
    /\ bpc' = "wait_high"
    /\ since' = 0
    /\ since_press' = 0
    /\ armed' = line
    /\ UNCHANGED <<line, envVars, btimer, elapsed, gateVars, cons, wait_returns,
                   dropped, consumed, last_k, pomodoroVars, mainVars>>

\* ------------------------------------------------- wait_for_button_n_times

\* for _ in 0..n: the loop runs once more after i iterations.
GateLoopInclusive(i, n) == i <= n
GateLoop(i, n) == i < n

\* First poll of a caller of wait_for_button_n_times(button, gate_n): the
\* loop `for _ in 0..n` ends at once when n = 0, else wait_for_button is called.
GateStart ==
    /\ gpc = "spawned"
    /\ IF GateLoop(0, gate_n)
          THEN /\ gpc' = "running"
               /\ bpc' = "wait_high"
          ELSE /\ gpc' = "returned"
               /\ bpc' = "unspawned"
    /\ seq' = <<>>
    /\ armed' = line
    /\ UNCHANGED <<line, envVars, btimer, elapsed, last_call, presses, signals,
                   since, since_press, gate_n, sw1, consVars, pomodoroVars,
                   mainVars>>

\* wait_for_button returns to wait_for_button_n_times, whose loop calls it
\* again until it has returned n times.
GateWaitHighAgain ==
    /\ gpc = "running"
    /\ WaitForButtonReturns
    /\ presses' = presses + 1
    /\ last_call' = Append(seq, <<"high", 0>>)
    /\ seq' = <<>>
    /\ IF GateLoop(presses + 1, gate_n)
          THEN /\ bpc' = "wait_high"
               /\ gpc' = "running"
          ELSE /\ bpc' = "unspawned"
               /\ gpc' = "returned"
    /\ since' = 0
    /\ since_press' = 0
    /\ armed' = line
    /\ UNCHANGED <<line, envVars, btimer, elapsed, signals, gate_n, sw1,
                   consVars, pomodoroVars, mainVars>>

\* ---------------------------------------------------------------- consumer

\* A consumer of the signal calls reset().
ConsumerReset ==
    /\ cons = "idle"
    /\ sw1' = SignalReset(sw1)
    /\ dropped' = dropped + unseen
    /\ unseen' = 0
    /\ UNCHANGED <<line, envVars, buttonVars, gateVars, cons, wait_returns,
                   consumed, last_k, pomodoroVars, mainVars>>

\* A poll of wait().await by the consumer: the first poll of a call, or the
\* poll after signal() woke the registered waker.
ConsumerWait ==
    /\ \/ cons = "idle"
       \/ cons = "waiting" /\ sw1 = "Signaled"
    /\ wait_returns < MaxPresses
    /\ sw1' = SignalWaitPoll(sw1)
    /\ IF SignalWaitReady(sw1)
          THEN /\ cons' = "idle"
               /\ wait_returns' = wait_returns + 1
               /\ consumed' = consumed + unseen
               /\ last_k' = unseen
               /\ unseen' = 0
          ELSE /\ cons' = "waiting"
               /\ UNCHANGED <<wait_returns, consumed, last_k, unseen>>
    /\ UNCHANGED <<line, envVars, buttonVars, gateVars, dropped, pomodoroVars,
                   mainVars>>

\* ------------------------------------------------------------- environment

\* The input line changes level at any time.
LineToggle ==
    /\ line' = IF line = "high" THEN "low" ELSE "high"
    /\ UNCHANGED <<envVars, buttonVars, gateVars, sw1, consVars, pomodoroVars,
                   mainVars>>

\* A bouncing push-button on a pulled-up line: a real edge is followed by a
\* window of one debounce time in which the contacts may bounce.
BounceWindow == Millis(100)

\* The button is pushed: the line falls.
Press ==
    /\ ~pressed
    /\ actuations < MaxPresses
    /\ pressed' = TRUE
    /\ line' = "low"
    /\ bounce' = BounceWindow
    /\ UNCHANGED <<actuations, buttonVars, gateVars, sw1, consVars,
                   pomodoroVars, mainVars>>

\* The button is let go: the line rises and the actuation is complete.
Release ==
    /\ pressed
    /\ pressed' = FALSE
    /\ line' = "high"
    /\ bounce' = BounceWindow
    /\ actuations' = actuations + 1
    /\ UNCHANGED <<buttonVars, gateVars, sw1, consVars, pomodoroVars, mainVars>>

\* A spurious transition inside the bounce window.
Bounce ==
    /\ bounce > 0
    /\ line' = IF line = "high" THEN "low" ELSE "high"
    /\ UNCHANGED <<envVars, buttonVars, gateVars, sw1, consVars, pomodoroVars,
                   mainVars>>

\* ----------------------------------------------------------- pomodoro task

\* Storeys::cycle(step) lights one storey per step, each followed by
\* delay(step), and completes with the last of its cycle_len steps.
CycleDone == atimer = 0 /\ cpos + 1 = cycle_len
\* Storeys::blink(step) toggles the storeys every step and never completes.
BlinkDone == FALSE
\* timer(d): Timer::after(d) has expired.
TimerDone == ctimer = 0

\* One poll of select(a, b): a is polled first, then b.
SelectPollSwapped(animDone, timerDone) ==
    IF animDone THEN "Second"
    ELSE IF timerDone THEN "First"
    ELSE "pending"
SelectPoll(animDone, timerDone) ==
    IF animDone THEN "First"
    ELSE IF timerDone THEN "Second"
    ELSE "pending"

\* What a resolved select leaves behind: the winner, the animation steps
\* completed and the ticks the countdown still had to run.
RaceRecord(phase, res) ==
    [phase |-> phase, won |-> res,
     steps |-> IF atimer = 0 THEN cpos + 1 ELSE cpos,
     left |-> ctimer]

\* The steps one poll of the select makes the animations start: an animation
\* that holds the storeys starts its next step when its delay(step) expired,
\* unless that was the last step of the cycle.
CycleSteps == IF "cycle" \in driving /\ atimer = 0 /\ ~CycleDone THEN 1 ELSE 0
BlinkSteps == IF "blink" \in driving /\ atimer = 0 THEN 1 ELSE 0

\* select returns Either: both futures are dropped, the one that lost
\* included, and the borrow of the storeys ends.
SelectKeeps(futures) == futures
SelectDrop(futures) == {}

\* First poll of pomodoro_task: reset of the signal, then the first poll of
\* select(storeys.cycle(step), timer(pomodoro_timer)) starts both sides.
\* PomodoroStart with the work phase held back until the signal is raised.
PomodoroStartAwaits ==
    /\ ppc = "spawned"
    /\ SignalWaitReady(sw1)
    /\ sw1' = SignalWaitPoll(sw1)
    /\ dropped' = dropped + unseen
    /\ unseen' = 0
    /\ ppc' = "work"
    /\ phase_log' = phase_log \o <<"entry", "work">>
    /\ cpos' = 0
    /\ driving' = {"cycle"}
    /\ cycle_steps' = cycle_steps + 1
    /\ atimer' = step
    /\ ctimer' = pomodoro_timer
    /\ UNCHANGED <<line, envVars, buttonVars, gateVars, cons, wait_returns,
                   consumed, last_k, cycle_len, blink_steps, race_log,
                   finished_led, offs, mainVars>>

PomodoroStart ==
    /\ ppc = "spawned"
    /\ sw1' = SignalReset(sw1)
    /\ dropped' = dropped + unseen
    /\ unseen' = 0
    /\ ppc' = "work"
    /\ phase_log' = phase_log \o <<"entry", "work">>
    /\ cpos' = 0
    /\ driving' = {"cycle"}
    /\ cycle_steps' = cycle_steps + 1
    /\ atimer' = step
    /\ ctimer' = pomodoro_timer
    /\ UNCHANGED <<line, envVars, buttonVars, gateVars, cons, wait_returns,
                   consumed, last_k, cycle_len, blink_steps, race_log,
                   finished_led, offs, mainVars>>

\* PollWork with the break entered only when the animation won.
PollWorkFirstOnly ==
    /\ ppc = "work"
    /\ atimer = 0 \/ ctimer = 0
    /\ cycle_steps' = cycle_steps + CycleSteps
    /\ LET res == SelectPoll(CycleDone, TimerDone) IN
       IF res = "pending"
          THEN /\ cpos' = cpos + 1
               /\ atimer' = step
               /\ blink_steps' = blink_steps + BlinkSteps
               /\ UNCHANGED <<ppc, driving, ctimer, phase_log, race_log,
                              finished_led, offs>>
          ELSE IF res = "First"
          THEN /\ race_log' = Append(race_log, RaceRecord("work", res))
               /\ ppc' = "break"
               /\ phase_log' = Append(phase_log, "break")
               /\ cpos' = 0
               /\ driving' = SelectDrop(driving) \cup {"blink"}
               /\ blink_steps' = blink_steps + BlinkSteps + 1
               /\ atimer' = step
               /\ ctimer' = break_timer
               /\ UNCHANGED <<finished_led, offs>>
          ELSE /\ race_log' = Append(race_log, RaceRecord("work", res))
               /\ ppc' = "done"
               /\ phase_log' = Append(phase_log, "exit")
               /\ driving' = SelectDrop(driving)
               /\ blink_steps' = blink_steps + BlinkSteps
               /\ finished_led' = "off"
               /\ offs' = offs + 1
               /\ atimer' = 0
               /\ ctimer' = 0
               /\ UNCHANGED cpos
    /\ UNCHANGED <<line, envVars, buttonVars, gateVars, sw1, consVars,
                   cycle_len, mainVars>>

\* A poll of the work select after one of its timers expired.  When it
\* resolves, the break select is polled for the first time in the same step
\* and the blink starts its first step.
PollWork ==
    /\ ppc = "work"
    /\ atimer = 0 \/ ctimer = 0
    /\ cycle_steps' = cycle_steps + CycleSteps
    /\ LET res == SelectPoll(CycleDone, TimerDone) IN
       IF res = "pending"
          THEN \* the cycle starts its next step
               /\ cpos' = cpos + 1
               /\ atimer' = step
               /\ blink_steps' = blink_steps + BlinkSteps
               /\ UNCHANGED <<ppc, driving, ctimer, phase_log, race_log>>
          ELSE /\ race_log' = Append(race_log, RaceRecord("work", res))
               /\ ppc' = "break"
               /\ phase_log' = Append(phase_log, "break")
               /\ cpos' = 0
               /\ driving' = SelectDrop(driving) \cup {"blink"}
               /\ blink_steps' = blink_steps + BlinkSteps + 1
               /\ atimer' = step
               /\ ctimer' = break_timer
    /\ UNCHANGED <<line, envVars, buttonVars, gateVars, sw1, consVars,
                   cycle_len, finished_led, offs, mainVars>>

\* PollBreak with the task starting over instead of returning.
PollBreakRepeat ==
    /\ ppc = "break"
    /\ atimer = 0 \/ ctimer = 0
    /\ cycle_steps' = cycle_steps + CycleSteps
    /\ blink_steps' = blink_steps + BlinkSteps
    /\ LET res == SelectPoll(BlinkDone, TimerDone) IN
       IF res = "pending"
          THEN /\ cpos' = cpos + 1
               /\ atimer' = step
               /\ UNCHANGED <<ppc, driving, ctimer, phase_log, race_log,
                              finished_led, offs>>
          ELSE /\ race_log' = Append(race_log, RaceRecord("break", res))
               /\ ppc' = IF offs = 0 THEN "spawned" ELSE "done"
               /\ phase_log' = Append(phase_log, "exit")
               /\ driving' = SelectDrop(driving)
               /\ finished_led' = "off"
               /\ offs' = offs + 1
               /\ atimer' = 0
               /\ ctimer' = 0
               /\ UNCHANGED cpos
    /\ UNCHANGED <<line, envVars, buttonVars, gateVars, sw1, consVars,
                   cycle_len, mainVars>>

\* A poll of the break select after one of its timers expired.  When it
\* resolves, finished_led is switched off and the task returns.
PollBreak ==
    /\ ppc = "break"
    /\ atimer = 0 \/ ctimer = 0
    /\ cycle_steps' = cycle_steps + CycleSteps
    /\ blink_steps' = blink_steps + BlinkSteps
    /\ LET res == SelectPoll(BlinkDone, TimerDone) IN
       IF res = "pending"
          THEN \* the blink starts its next step
               /\ cpos' = cpos + 1
               /\ atimer' = step
               /\ UNCHANGED <<ppc, driving, ctimer, phase_log, race_log,
                              finished_led, offs>>
          ELSE /\ race_log' = Append(race_log, RaceRecord("break", res))
               /\ ppc' = "done"
               /\ phase_log' = Append(phase_log, "exit")
               /\ driving' = SelectDrop(driving)
               /\ finished_led' = "off"
               /\ offs' = offs + 1
               /\ atimer' = 0
               /\ ctimer' = 0
               /\ UNCHANGED cpos
    /\ UNCHANGED <<line, envVars, buttonVars, gateVars, sw1, consVars,
                   cycle_len, mainVars>>

\* -------------------------------------------------------------------- time

\* A task that is polled before any time passes.
ButtonReady ==
    \/ bpc = "spawned"
    \/ gpc = "spawned"
    \/ bpc \in {"delay1", "delay2"} /\ btimer = 0
    \/ bpc = "wait_high" /\ LineAt("high")
    \/ bpc = "wait_low" /\ LineAt("low")
    \/ WaitForButtonReturns /\ (gpc = "running" \/ presses < MaxPresses)
ConsumerReady == cons = "waiting" /\ sw1 = "Signaled" /\ wait_returns < MaxPresses
PomodoroReady ==
    \/ ppc = "spawned"
    \/ ppc \in {"work", "break"} /\ (atimer = 0 \/ ctimer = 0)
MainReady ==
    \/ mpc = "start"
    \/ mpc = "loop" /\ mtimer = 0

Dec(t) == IF t > 0 THEN t - 1 ELSE 0
Inc(t) == IF t < SinceCap THEN t + 1 ELSE SinceCap

\* 100 ms pass: every running timer gets one tick closer to its deadline, and
\* contacts whose bounce window ends come to rest.
Tick ==
    /\ ~ButtonReady
    /\ ~ConsumerReady
    /\ ~PomodoroReady
    /\ ~MainReady
    /\ btimer' = Dec(btimer)
    /\ elapsed' = IF bpc \in {"delay1", "delay2"} THEN elapsed + 1 ELSE elapsed
    /\ atimer' = Dec(atimer)
    /\ ctimer' = Dec(ctimer)
    /\ mtimer' = Dec(mtimer)
    /\ bounce' = Dec(bounce)
    /\ line' = IF bounce = 1 THEN (IF pressed THEN "low" ELSE "high") ELSE line
    /\ since' = Inc(since)
    /\ since_press' = Inc(since_press)
    /\ UNCHANGED <<pressed, actuations, bpc, seq, last_call, presses, signals,
                   armed, gateVars, sw1, consVars, ppc, cycle_len, cpos, driving,
                   cycle_steps, blink_steps, phase_log, race_log, finished_led,
                   offs, mpc>>

\* ----------------------------------------------------------- specification

\* The program: main, button_task, pomodoro_task and a free input line.
Next ==
    \/ MainStart
    \/ MainLoop
    \/ ButtonStart
    \/ WaitHigh
    \/ Delay1Done
    \/ WaitLow
    \/ Delay2Done
    \/ WaitHighAgain
    \/ PomodoroStart
    \/ PollWork
    \/ PollBreak
    \/ LineToggle
    \/ Tick

Spec == Init /\ [][Next]_vars

\* wait_for_button_n_times(button, n) called by a task of its own, for every
\* n up to MaxGateN, on a free input line.
InitGate ==
    /\ InitCommon
    /\ line \in Levels
    /\ bpc = "unspawned"
    /\ gpc = "spawned"
    /\ gate_n \in 0..MaxGateN
    /\ cons = "none"
    /\ ppc = "unspawned"
    /\ cycle_len = 1
    /\ finished_led = "off"
    /\ mpc = "none"
NextGate ==
    \/ GateStart
    \/ WaitHigh
    \/ Delay1Done
    \/ WaitLow
    \/ Delay2Done
    \/ GateWaitHighAgain
    \/ LineToggle
    \/ Tick
SpecGate == InitGate /\ [][NextGate]_vars

\* button_task as the producer of SW1_SIGNAL and a consumer that calls
\* reset() and wait() in any order.
InitChannel ==
    /\ InitCommon
    /\ line \in Levels
    /\ bpc = "spawned"
    /\ gpc = "none"
    /\ gate_n = 0
    /\ cons = "idle"
    /\ ppc = "unspawned"
    /\ cycle_len = 1
    /\ finished_led = "off"
    /\ mpc = "none"
NextChannel ==
    \/ ButtonStart
    \/ WaitHigh
    \/ Delay1Done
    \/ WaitLow
    \/ Delay2Done
    \/ WaitHighAgain
    \/ ConsumerReset
    \/ ConsumerWait
    \/ LineToggle
    \/ Tick
SpecChannel == InitChannel /\ [][NextChannel]_vars

\* button_task on the line of a bouncing push-button.
InitDebounce ==
    /\ InitCommon
    /\ line = "high"
    /\ bpc = "spawned"
    /\ gpc = "none"
    /\ gate_n = 0
    /\ cons = "none"
    /\ ppc = "unspawned"
    /\ cycle_len = 1
    /\ finished_led = "off"
    /\ mpc = "none"
NextDebounce ==
    \/ ButtonStart
    \/ WaitHigh
    \/ Delay1Done
    \/ WaitLow
    \/ Delay2Done
    \/ WaitHighAgain
    \/ Press
    \/ Release
    \/ Bounce
    \/ Tick
SpecDebounce == InitDebounce /\ [][NextDebounce]_vars

\* Time passes and the executor polls every task that is ready.
FairSpec ==
    /\ Spec
    /\ SF_vars(Tick)
    /\ WF_vars(MainStart)
    /\ WF_vars(MainLoop)
    /\ WF_vars(ButtonStart)
    /\ WF_vars(WaitHigh)
    /\ WF_vars(Delay1Done)
    /\ WF_vars(WaitLow)
    /\ WF_vars(Delay2Done)
    /\ WF_vars(WaitHighAgain)
    /\ WF_vars(PomodoroStart)
    /\ WF_vars(PollWork)
    /\ WF_vars(PollBreak)

\* ------------------------------------------------------------------ claims

IsPrefix(s, t) == Len(s) <= Len(t) /\ \A i \in 1..Len(s) : s[i] = t[i]
Records(phase) == {i \in 1..Len(race_log) : race_log[i].phase = phase}
Entered(phase) == \E i \in 1..Len(phase_log) : phase_log[i] = phase

\* C1: the k-th signal() on the button's signal happens only after 3*k
\* completed presses; no signal() is issued after 1 or 2 presses.
C1_SignalPerThreePresses == 3 * signals <= presses

\* C2: the work race is not begun before a signal produced by 3 clean presses
\* has been received after the entry reset().
C2_AwaitStartGates == Entered("work") => presses >= 3 /\ signals >= 1

\* C3: the phases occur in the order Entry, WorkPhase, BreakPhase, Exit, each
\* at most once; BreakPhase is entered exactly when the work race has
\* resolved, whichever side won it.
PhaseOrder == <<"entry", "work", "break", "exit">>
C3_PhaseOrder ==
    /\ IsPrefix(phase_log, PhaseOrder)
    /\ Entered("break") <=> Records("work") # {}
    /\ \A i \in Records("work") : race_log[i].won \in {"First", "Second"}
    /\ Entered("exit") => Entered("break")
C3_Witness ==
    /\ phase_log = <<"entry", "work", "break">>
    /\ \E i \in Records("work") : race_log[i].won = "Second"
    /\ ppc = "break"

\* C4: a race resolves exactly once and by one branch.  With A the total
\* duration of the animation and D that of the countdown: if A < D it
\* resolves by the animation (First) while the countdown still has D - A to
\* run; if D < A it resolves by the countdown (Second) with the animation
\* short of its last step.  The blink never ends, so D < A in the break race.
AnimTotal == cycle_len * step
C4_RaceFirstWins ==
    /\ Cardinality(Records("work")) <= 1
    /\ Cardinality(Records("break")) <= 1
    /\ ppc \in {"break", "done"} => Records("work") # {}
    /\ \A i \in Records("work") :
          /\ AnimTotal < pomodoro_timer =>
                /\ race_log[i].won = "First"
                /\ race_log[i].left = pomodoro_timer - AnimTotal
                /\ race_log[i].steps = cycle_len
          /\ pomodoro_timer < AnimTotal =>
                /\ race_log[i].won = "Second"
                /\ race_log[i].left = 0
                /\ race_log[i].steps < cycle_len
    /\ \A i \in Records("break") :
          /\ race_log[i].won = "Second"
          /\ race_log[i].left = 0
C4_Witness ==
    /\ pomodoro_timer < AnimTotal
    /\ \E i \in Records("work") : race_log[i].won = "Second" /\ race_log[i].steps > 0
    /\ Records("break") # {}

\* C7: a call of wait_for_button that returns has performed, in this order
\* and one after the other: line seen high, a delay of a full 100 ms, line
\* seen low, a delay of a full 100 ms, line seen high; a running call has
\* performed a prefix of these.
DebounceOrder ==
    << <<"high", 0>>, <<"delay", Millis(100)>>, <<"low", 0>>,
       <<"delay", Millis(100)>>, <<"high", 0>> >>
C7_DebounceOrder ==
    /\ presses > 0 => last_call = DebounceOrder
    /\ IsPrefix(seq, DebounceOrder) /\ Len(seq) < Len(DebounceOrder)
    /\ bpc = "delay1" => Len(seq) = 1
    /\ bpc = "wait_low" => Len(seq) = 2
    /\ bpc = "delay2" => Len(seq) = 3
    /\ bpc = "wait_high_again" => Len(seq) = 4
C7_Witness == presses = 2 /\ last_call = DebounceOrder /\ bpc = "wait_low"

\* C10: finished_led is switched off exactly once, when the break race has
\* resolved, and pomodoro_task has then returned: nothing of it changes any
\* more and no phase is entered again, while main goes round its loop for ever.
C10_ExitState ==
    /\ offs <= 1
    /\ offs = 1 <=> ppc = "done"
    /\ ppc = "done" =>
          /\ finished_led = "off"
          /\ Records("break") # {}
          /\ phase_log = PhaseOrder
    /\ mpc \in {"start", "loop"}
C5_SingleConsumption ==
    /\ sw1 \in {"None", "Waiting", "Signaled"}
    /\ unseen >= 1 => SignalWaitReady(sw1)
    /\ wait_returns >= 1 => last_k >= 1
    /\ wait_returns <= signals
    /\ cons = "waiting" /\ unseen = 0 => sw1 = "Waiting"
C5_Witness ==
    /\ signals = 2
    /\ wait_returns = 1
    /\ last_k = 2
    /\ cons = "waiting"
    /\ sw1 = "Waiting"

\* C6: reset() discards what was signalled before it: every signal() call is
\* cleared by a reset(), taken by one wait() or still pending, a wait()
\* returns only for a signal() issued after the last reset(), and with
\* nothing signalled since then wait() is not ready.
C6_Reset ==
    /\ unseen = 0 => ~SignalWaitReady(sw1)
    /\ consumed + dropped + unseen = signals
    /\ wait_returns <= consumed
C6_Witness ==
    /\ dropped >= 1
    /\ wait_returns = 1
    /\ signals = dropped + 1
    /\ last_k = 1

\* C8 as claimed: once the button is at rest and wait_for_button waits for
\* the next press, it has returned exactly once per actuation.
Quiescent == ~pressed /\ bounce = 0 /\ bpc = "wait_low"
C9_GateSequential ==
    /\ presses <= gate_n
    /\ gpc = "returned" <=> gpc # "spawned" /\ presses = gate_n
    /\ gpc = "running" => presses < gate_n /\ bpc # "unspawned"
    /\ gpc \in {"spawned", "returned"} => bpc = "unspawned" /\ seq = <<>>
    /\ presses > 0 => last_call = DebounceOrder
    /\ gate_n = 0 => presses = 0 /\ last_call = <<>> /\ elapsed = 0
C9_Witness == gate_n = 3 /\ presses = 3 /\ gpc = "returned"


\* C11: no notification is lost or duplicated, whatever the interleaving of
\* signal() with reset() and wait(): a signal() leaves the slot Signaled, and
\* when the consumer is waiting that makes its wait() ready; a Signaled slot
\* is emptied only by a wait() that returns or by a reset(); a wait() returns
\* only for a Signaled slot with at least one signal() not yet taken, takes
\* all of them and leaves none for another wait().
C11_NoLostNoDuplicate ==
    /\ [][signals' = signals + 1
            => /\ sw1' = "Signaled"
               /\ cons = "waiting" => ConsumerReady']_vars
    /\ [][sw1 = "Signaled" /\ sw1' # "Signaled"
            => \/ wait_returns' = wait_returns + 1
               \/ cons = "idle" /\ cons' = "idle" /\ dropped' = dropped + unseen]_vars
    /\ [][wait_returns' # wait_returns
            => /\ wait_returns' = wait_returns + 1
               /\ sw1 = "Signaled" /\ sw1' = "None"
               /\ unseen >= 1 /\ unseen' = 0
               /\ consumed' = consumed + unseen]_vars
    /\ [][cons = "waiting" /\ cons' # "waiting"
            => wait_returns' = wait_returns + 1]_vars
\* A first signal() was stored and taken by a wait(); the consumer waits
\* again and a second signal() has just made that wait() ready.
C11_Witness ==
    /\ cons = "waiting"
    /\ sw1 = "Signaled"
    /\ wait_returns = 1
    /\ last_k = 1
    /\ dropped = 0
    /\ signals = 2

\* C12: the break race is never resolved by the blink and is resolved by the
\* countdown exactly when its 5 minutes have elapsed: while the race runs the
\* blink has been running for exactly the time the countdown has counted
\* down, the race is left only by a poll that finds the countdown expired and
\* returns Either::Second, no time passes between the expiry and that poll,
\* and every break race is resolved in the end.
C12_BreakByCountdown ==
    /\ [](ppc = "break"
            => ctimer + cpos * step + (step - atimer) = Secs(BreakSecs))
    /\ [][ppc = "break" /\ ppc' # "break"
            => /\ ctimer = 0
               /\ SelectPoll(BlinkDone, TimerDone) = "Second"
               /\ race_log' = Append(race_log, RaceRecord("break", "Second"))
               /\ ppc' = "done"]_vars
    /\ [][ppc = "break" /\ ctimer = 0 => ~Tick]_vars
    /\ (ppc = "break") ~> (ppc = "done")
\* The break race has been resolved by the countdown with the blink in the
\* middle of a step count of BreakSecs, after a work race won by the cycle.
C12_Witness ==
    /\ ppc = "done"
    /\ \E i \in Records("work") : race_log[i].won = "First"
    /\ \E i \in Records("break") :
          /\ race_log[i].won = "Second"
          /\ race_log[i].steps * step = Secs(BreakSecs)
    /\ blink_steps > 0

\* C13: the branch that lost a race takes no further step: the cycle starts
\* no step once the break phase has been entered, the blink starts no step
\* once finished_led has been switched off, and at any time at most one
\* animation holds the storeys, the one of the running phase.
C13_LoserCancelled ==
    /\ [](/\ Cardinality(driving) <= 1
          /\ ppc = "work" => driving = {"cycle"}
          /\ ppc = "break" => driving = {"blink"}
          /\ ppc \notin {"work", "break"} => driving = {})
    /\ [][cycle_steps' # cycle_steps => ~Entered("break")]_vars
    /\ [][blink_steps' # blink_steps => offs = 0 /\ Entered("break")']_vars
    /\ [](Entered("break") => cycle_steps <= cycle_len)
\* The countdown won the work race with the cycle short of its last step, the
\* blink ran through the break and the task has returned.
C13_Witness ==
    /\ ppc = "done"
    /\ \E i \in Records("work") :
          race_log[i].won = "Second" /\ race_log[i].steps < cycle_len
    /\ cycle_steps >= 1
    /\ blink_steps >= 2
    /\ driving = {}

\* C14: a line stuck away from the awaited level blocks wait_for_button: the
\* call does not get past wait_for_low while the line is high, nor past a
\* wait_for_high while the line is low; so when, from some point of a call
\* on, the line stays high before the low observation or stays low before a
\* high observation, that call never returns and button_task issues no
\* further signal().
BeforeLow == bpc \in {"delay1", "wait_low"}
BeforeHigh == bpc \in {"wait_high", "delay2", "wait_high_again"}
C14_StuckLine ==
    /\ [][bpc = "wait_low" /\ line = "high"
            => UNCHANGED <<bpc, seq, presses, signals>>]_vars
    /\ [][line = "low" /\ bpc \in {"wait_high", "wait_high_again"}
            => UNCHANGED <<bpc, seq, presses, signals>>]_vars
    /\ \A k \in 0..MaxPresses :
          /\ [](BeforeLow /\ presses = k /\ signals = k /\ [](line = "high")
                  => [](BeforeLow /\ presses = k /\ signals = k))
          /\ [](BeforeHigh /\ presses = k /\ signals = k /\ [](line = "low")
                  => [](BeforeHigh /\ presses = k /\ signals = k))
\* After one reported press the line has stayed high, wait_for_low has been
\* pending for the whole work and break phases and nothing more was signalled.
C14_Witness ==
    /\ bpc = "wait_low"
    /\ line = "high"
    /\ since = SinceCap
    /\ presses = 1
    /\ signals = 1
    /\ ppc = "done"

\* A wait_for_high or wait_for_low of wait_for_button accepts the line level.
Observed == bpc \in {"wait_high", "wait_low", "wait_high_again"} /\ bpc' # bpc

\* C15 as claimed: every line level accepted by wait_for_button comes at
\* least one debounce delay (100 ms) after the level accepted before it, inside
\* a call and from one call to the next, and so does every reported press
\* after the press reported before it.
C15_WindowBetweenAll ==
    /\ [][Observed => since >= Millis(100)]_vars
    /\ [][presses' # presses => since_press >= Millis(100)]_vars
\* C15 as amended: inside one call of wait_for_button the low level and the
\* second high level are each accepted at least 100 ms after the level before
\* them, and two presses are reported at least 200 ms apart; the first high
\* level of a call has no such distance to the last level of the call before.
C15_WindowInsideCall ==
    /\ [][Observed /\ bpc # "wait_high" => since >= Millis(100)]_vars
    /\ [][presses' # presses => since_press >= Millis(200)]_vars
\* The second call has accepted its first high level in the very tick in which
\* the first call returned on its last high level.
C15_Witness ==
    /\ presses = 1
    /\ bpc = "delay1"
    /\ since = 0
    /\ since_press = 0
    /\ elapsed = 0

\* C16: a level reached during a debounce delay, or at the instant the delay
\* expires, and still held when the wait after the delay is entered is
\* accepted by that wait: with the awaited level on the line no time passes
\* before the pending wait is polled, and the wait is passed unless the line
\* leaves the level first, so the call goes on and the press is not lost.
AwaitedLevelHeld ==
    \/ bpc = "wait_low" /\ line = "low"
    \/ bpc = "wait_high" /\ line = "high"
    \/ bpc = "wait_high_again" /\ line = "high" /\ presses < MaxPresses
C16_BoundaryObserved ==
    /\ [][AwaitedLevelHeld => ~Tick]_vars
    /\ (bpc = "wait_low" /\ line = "low") ~> (bpc = "delay2" \/ line = "high")
    /\ (bpc = "wait_high" /\ line = "high") ~> (bpc = "delay1" \/ line = "low")
    /\ (bpc = "wait_high_again" /\ line = "high" /\ presses < MaxPresses)
          ~> (bpc # "wait_high_again" \/ line = "low")
\* The line fell before the first delay had expired and was still low when
\* wait_for_low was entered; wait_for_low has accepted it in the same tick.
C16_Witness ==
    /\ bpc = "delay2"
    /\ armed = "low"
    /\ seq = <<<<"high", 0>>, <<"delay", debounce_delay>>, <<"low", 0>>>>
    /\ since = 0
    /\ line = "low"

============================================================================
